---------------------------- MODULE Spec2Model ----------------------------
(***************************************************************************)
(* A model of repokit: the markdown search engine (repokit/search.py) and  *)
(* its command (repokit/cli.py), the template-drift detector              *)
(* (repokit/sync.py), the scaffolder (repokit/scaffold.py) and the         *)
(* transfer and compression of context files (repokit/context_memory.py). *)
(*                                                                         *)
(* Texts are sequences of one-character strings, so that tokenizing,       *)
(* lower-casing, line splitting and substring search are computed the way  *)
(* the Python code computes them.                                          *)
(***************************************************************************)
EXTENDS Integers, Sequences, FiniteSets, TLC

VARIABLES
    \* ---- search_markdown(query, scope, limit) ----
    fs,            \* markdown tree on disk, in rglob traversal order
    scope,         \* the scope directory, as its path parts
    query,         \* the query text
    limit,         \* the limit argument: <<>> until the code reads it, then <<l>>
    pc,            \* position of the running search
    query_tokens,  \* local query_tokens
    files,         \* local files (the enumerated paths)
    docs,          \* local docs (path, content) read so far
    scan,          \* per document: the locals overlap / doc_norm / kept
    result,        \* the returned list of hits
    listed,        \* has the scope been enumerated
    deleted,       \* has a third party deleted a file during the search
    cliOut,        \* what the search command printed and its exit code
    \* ---- analyze_sync(repo_path, repo_type) ----
    templates,     \* the template tree: scope name -> set of file names, or NoDir
    repo,          \* kind of repo_path: "dir", "file" or "absent"
    disk,          \* set of relative paths that exist under repo_path
    sidecar,       \* the .repokit.yml of the repository
    syncArg,       \* the repo_type argument of the last call
    syncOut,       \* outcome of the last call
    scaffoldOut,   \* outcome of scaffold_project on repo_path
    \* ---- transfer_context and compress_context_file ----
    source,        \* the source repository (the repository of a compression)
    destination,   \* the destination repository of a transfer
    ctxBefore,     \* history: the two repositories when the call was made
    ctxOut         \* outcome of the call

searchVars == <<fs, scope, query, limit, pc, query_tokens, files, docs, scan,
                result, listed, deleted, cliOut>>
syncVars   == <<templates, repo, disk, sidecar, syncArg, syncOut, scaffoldOut>>
ctxVars    == <<source, destination, ctxBefore, ctxOut>>
vars       == <<searchVars, syncVars, ctxVars>>

-----------------------------------------------------------------------------
(* Bounds of the explored inputs *)

MaxFiles      == 2    \* ranking inputs: files under the scope
MaxDocWords   == 2    \* ranking inputs: words of a document
MaxQueryWords == 2    \* ranking inputs: words of the query
MaxLines      == 2    \* line inputs: lines of the document
MaxLineQuery  == 3    \* line inputs: words of the query
MaxLimit      == 2    \* largest limit argument

Limits == (0 - 1)..MaxLimit

-----------------------------------------------------------------------------
(* Generic helpers *)

Range(s) == {s[i] : i \in 1..Len(s)}

Min(a, b) == IF a <= b THEN a ELSE b

Max(a, b) == IF a >= b THEN a ELSE b

RECURSIVE SumOver(_, _)
SumOver(f, S) ==
    IF S = {} THEN 0
    ELSE LET x == CHOOSE y \in S : TRUE
         IN  f[x] + SumOver(f, S \ {x})

SeqsUpTo(S, n) == UNION {[1..k -> S] : k \in 0..n}

RECURSIVE Join(_, _)
Join(parts, sep) ==
    IF Len(parts) = 0 THEN <<>>
    ELSE IF Len(parts) = 1 THEN parts[1]
    ELSE parts[1] \o sep \o Join(Tail(parts), sep)

-----------------------------------------------------------------------------
(* Characters *)

UpperChars == {"A", "B"}

ToLower == [c \in UpperChars |-> IF c = "A" THEN "a" ELSE "b"]

\* WORD_RE = [a-zA-Z0-9_\-]+ : the characters of the model's alphabet that
\* belong to the class
WordChars == {"a", "b", "A", "B", "0", "_", "-"}

WhiteSpace == {" ", "\n", "\t"}

LineBreaks == {"\n"}

LowerChar(c) == IF c \in UpperChars THEN ToLower[c] ELSE c

\* str.lower()
Lower(text) == [i \in 1..Len(text) |-> LowerChar(text[i])]

\* str.strip()
RECURSIVE LStrip(_)
LStrip(text) ==
    IF Len(text) > 0 /\ text[1] \in WhiteSpace THEN LStrip(Tail(text)) ELSE text

RECURSIVE RStrip(_)
RStrip(text) ==
    IF Len(text) > 0 /\ text[Len(text)] \in WhiteSpace
    THEN RStrip(SubSeq(text, 1, Len(text) - 1))
    ELSE text

Strip(text) == RStrip(LStrip(text))

\* needle in haystack
IsSubstring(needle, hay) ==
    \E i \in 0..(Len(hay) - Len(needle)) :
        \A j \in 1..Len(needle) : hay[i + j] = needle[j]

\* str.splitlines()
RECURSIVE SplitLinesFrom(_, _, _)
SplitLinesFrom(text, cur, acc) ==
    IF Len(text) = 0
    THEN IF Len(cur) = 0 THEN acc ELSE Append(acc, cur)
    ELSE IF text[1] \in LineBreaks
         THEN SplitLinesFrom(Tail(text), <<>>, Append(acc, cur))
         ELSE SplitLinesFrom(Tail(text), Append(cur, text[1]), acc)

SplitLines(text) == SplitLinesFrom(text, <<>>, <<>>)

-----------------------------------------------------------------------------
(* search.py *)

\* WORD_RE.findall(text): the maximal runs of word characters
RECURSIVE FindAllFrom(_, _, _)
FindAllFrom(text, cur, acc) ==
    IF Len(text) = 0
    THEN IF Len(cur) = 0 THEN acc ELSE Append(acc, cur)
    ELSE IF text[1] \in WordChars
         THEN FindAllFrom(Tail(text), Append(cur, text[1]), acc)
         ELSE FindAllFrom(Tail(text), <<>>,
                          IF Len(cur) = 0 THEN acc ELSE Append(acc, cur))

FindAll(text) == FindAllFrom(text, <<>>, <<>>)

\* _tokenize
Tokenize(text) ==
    LET found == FindAll(text)
    IN  [i \in 1..Len(found) |-> Lower(found[i])]

\* collections.Counter(tokens)
Counter(tokens) ==
    [t \in Range(tokens) |-> Cardinality({i \in 1..Len(tokens) : tokens[i] = t})]

\* counter[token], 0 for a token that is not a key
Count(counter, t) == IF t \in DOMAIN counter THEN counter[t] ELSE 0



\* the locals of one iteration of the scoring loop (search.py:68-83)

\* faulty variant: a token of the document earns its full query multiplicity
OverlapQueryCredit(token_counter, query_counter) ==
    SumOver([t \in DOMAIN query_counter |->
                IF Count(token_counter, t) > 0 THEN query_counter[t] ELSE 0],
            DOMAIN query_counter)

Overlap(token_counter, query_counter) ==
    SumOver([t \in DOMAIN query_counter |->
                Min(Count(token_counter, t), query_counter[t])],
            DOMAIN query_counter)

DocNorm(token_counter) == SumOver(token_counter, DOMAIN token_counter)

\* The float overlap / (1 + doc_norm ** 0.5) as a fixed-point number with
\* Scale units per 1.0, rounded down.  For 0 <= overlap <= doc_norm <= 12 two
\* of these numbers compare (<, =, >) exactly as the two floats do.
Scale == 1000

RECURSIVE ISqrtBetween(_, _, _)
ISqrtBetween(n, lo, hi) ==
    IF lo >= hi THEN lo
    ELSE LET mid == (lo + hi + 1) \div 2
         IN  IF mid * mid <= n THEN ISqrtBetween(n, mid, hi)
                               ELSE ISqrtBetween(n, lo, mid - 1)

\* Scale * sqrt(doc_norm), rounded down (the root is at most Scale * doc_norm)
ScaledSqrt(doc_norm) ==
    ISqrtBetween(doc_norm * Scale * Scale, 0, doc_norm * Scale)

\* faulty variant: the norm is not damped by the square root
ScoreLinearNorm(overlap, doc_norm) ==
    (overlap * Scale * Scale) \div (Scale + doc_norm * Scale)

Score(overlap, doc_norm) ==
    (overlap * Scale * Scale) \div (Scale + ScaledSqrt(doc_norm))

\* faulty variant: the tests read "< 0" where the code reads "<= 0"
KeptUnlessNegative(token_counter, overlap, score) ==
    /\ DOMAIN token_counter # {}
    /\ ~ (overlap < 0)
    /\ ~ (score < 0)

\* the three "continue" tests of the loop: a document is kept when none fires
Kept(token_counter, overlap, score) ==
    /\ DOMAIN token_counter # {}
    /\ ~ (overlap <= 0)
    /\ ~ (score <= 0)

\* the per-line score of _best_line_snippet
LineScore(line, qtokens) ==
    Cardinality({i \in 1..Len(qtokens) : IsSubstring(qtokens[i], Lower(line))})

\* faulty variant: ">=" where the code reads ">"
BetterOrEqual(score, best_score) == score >= best_score

\* "if score > best_score" of the loop
Better(score, best_score) == score > best_score

RECURSIVE BestLineLoop(_, _, _, _, _)
BestLineLoop(lines, qtokens, idx, best_idx, best_score) ==
    IF idx >= Len(lines) THEN best_idx
    ELSE LET score == LineScore(lines[idx + 1], qtokens)
         IN  IF Better(score, best_score)
             THEN BestLineLoop(lines, qtokens, idx + 1, idx, score)
             ELSE BestLineLoop(lines, qtokens, idx + 1, best_idx, best_score)

MaxSnippet == 200

Take(text, n) == SubSeq(text, 1, Min(n, Len(text)))

\* _best_line_snippet
BestLineSnippet(content, qtokens) ==
    LET lines == SplitLines(content)
    IN  IF Len(lines) = 0 THEN <<1, <<>>>>
        ELSE LET best_idx == BestLineLoop(lines, qtokens, 0, 0, 0 - 1)
             IN  <<best_idx + 1, Take(Strip(lines[best_idx + 1]), MaxSnippet)>>

\* one iteration of "for path, content in docs"
ScoreDoc(doc, qtokens) ==
    LET token_counter == Counter(Tokenize(doc.content))
        overlap       == Overlap(token_counter, Counter(qtokens))
        doc_norm      == DocNorm(token_counter)
        score         == Score(overlap, doc_norm)
        best          == BestLineSnippet(doc.content, qtokens)
    IN  [path |-> doc.path, overlap |-> overlap, doc_norm |-> doc_norm,
         kept |-> Kept(token_counter, overlap, score),
         hit  |-> [path |-> doc.path, score |-> score,
                   line |-> best[1], snippet |-> best[2]]]

ScanDocs(ds, qtokens) == [i \in 1..Len(ds) |-> ScoreDoc(ds[i], qtokens)]

RECURSIVE KeptHits(_)
KeptHits(sc) ==
    IF Len(sc) = 0 THEN <<>>
    ELSE IF sc[1].kept THEN <<sc[1].hit>> \o KeptHits(Tail(sc))
         ELSE KeptHits(Tail(sc))

\* hits.sort(key=score, reverse=True): a stable sort, equal scores keep their
\* order.  Insertion places a hit after every hit that does not score less.
\* faulty variant: the sort without reverse=True
RECURSIVE InsertHitAscending(_, _)
InsertHitAscending(sorted, h) ==
    IF Len(sorted) = 0 THEN <<h>>
    ELSE IF sorted[1].score <= h.score
         THEN <<sorted[1]>> \o InsertHitAscending(Tail(sorted), h)
         ELSE <<h>> \o sorted

\* faulty variant: an unstable sort, a hit goes before the hits of its score
RECURSIVE InsertHitBeforeEqual(_, _)
InsertHitBeforeEqual(sorted, h) ==
    IF Len(sorted) = 0 THEN <<h>>
    ELSE IF sorted[1].score > h.score
         THEN <<sorted[1]>> \o InsertHitBeforeEqual(Tail(sorted), h)
         ELSE <<h>> \o sorted

RECURSIVE InsertHit(_, _)
InsertHit(sorted, h) ==
    IF Len(sorted) = 0 THEN <<h>>
    ELSE IF sorted[1].score >= h.score
         THEN <<sorted[1]>> \o InsertHit(Tail(sorted), h)
         ELSE <<h>> \o sorted

RECURSIVE SortFrom(_, _)
SortFrom(hits, sorted) ==
    IF Len(hits) = 0 THEN sorted
    ELSE SortFrom(Tail(hits), InsertHit(sorted, hits[1]))

SortHits(hits) == SortFrom(hits, <<>>)

\* faulty variant: the last entries are kept, not the first
SliceToLast(hits, lim) ==
    IF lim >= 0 THEN SubSeq(hits, Len(hits) - Min(lim, Len(hits)) + 1, Len(hits))
    ELSE SubSeq(hits, 1, Max(0, Len(hits) + lim))

\* hits[:limit]
SliceTo(hits, lim) ==
    IF lim >= 0 THEN SubSeq(hits, 1, Min(lim, Len(hits)))
    ELSE SubSeq(hits, 1, Max(0, Len(hits) + lim))

\* config.SKIP_DIRS
SKIP_DIRS == {".git", ".venv", "venv", "node_modules", "dist", "build",
              "__pycache__", ".mypy_cache", ".pytest_cache"}

\* path.parts of an entry of the tree
Parts(entry) == scope \o entry.dirs \o <<entry.name>>

\* _iter_markdown_files: rglob("*.md") in traversal order, without the entries
\* that have a part in SKIP_DIRS or are not regular files
RECURSIVE IterMarkdownFiles(_)
IterMarkdownFiles(tree) ==
    IF Len(tree) = 0 THEN <<>>
    ELSE LET e    == tree[1]
             rest == IterMarkdownFiles(Tail(tree))
         IN  IF e.suffix # ".md" THEN rest
             ELSE IF \E part \in Range(Parts(e)) : part \in SKIP_DIRS THEN rest
             ELSE IF e.kind = "file" THEN <<e.name>> \o rest
             ELSE rest

-----------------------------------------------------------------------------
(* The inputs of a search *)

FileNames == <<"AGENTS.md", "README.md", "NOTES.md", "PRD.md">>

Words == {<<"a">>, <<"B">>}

\* queries without a word character
BlankQueries == {<<" ">>, <<".">>, <<".", " ", ".">>}

LineWords == Words \cup {<<"a", "B">>}

\* the words of ws separated by single blanks
Text(ws) == Join(ws, <<" ">>)

TextsOf(W, n) == {Text(ws) : ws \in SeqsUpTo(W, n)}

\* the i-th entry of the tree: a regular markdown file directly under the scope
FileEntry(i, content) ==
    [dirs |-> <<>>, name |-> FileNames[i], suffix |-> ".md", kind |-> "file",
     content |-> content]

TreeOf(contents) == [i \in 1..Len(contents) |-> FileEntry(i, contents[i])]

\* ranking inputs: several one-line documents
RankTrees == {TreeOf(cs) : cs \in SeqsUpTo(TextsOf(Words, MaxDocWords), MaxFiles)}

RankQueries == TextsOf(Words, MaxQueryWords) \cup BlankQueries

\* line inputs: one document of several lines, each empty or one word
LineContents ==
    {Join(ls, <<"\n">>) : ls \in SeqsUpTo(LineWords \cup {<<>>}, MaxLines)}

LineTrees == {TreeOf(<<c>>) : c \in LineContents}

LineQueries == TextsOf(Words, MaxLineQuery)

NoLimit == <<>>

\* the search command has printed nothing
NoOutput == [kind |-> "none"]

SearchIdle ==
    /\ scope = <<"repo">>
    /\ limit = NoLimit
    /\ pc = "start"
    /\ query_tokens = <<>>
    /\ files = <<>>
    /\ docs = <<>>
    /\ scan = <<>>
    /\ result = <<>>
    /\ listed = FALSE
    /\ deleted = FALSE
    /\ cliOut = NoOutput

ContextUnused ==
    /\ source = <<>>
    /\ destination = <<>>
    /\ ctxBefore = <<>>
    /\ ctxOut = <<>>

SyncUnused ==
    /\ templates = <<>>
    /\ repo = "absent"
    /\ disk = {}
    /\ sidecar = <<>>
    /\ syncArg = <<>>
    /\ syncOut = <<>>
    /\ scaffoldOut = <<>>

InitSearch ==
    /\ \/ fs \in RankTrees /\ query \in RankQueries
       \/ fs \in LineTrees /\ query \in LineQueries
    /\ SearchIdle
    /\ SyncUnused
    /\ ContextUnused

-----------------------------------------------------------------------------
(* cli.py: the search command *)

EXIT_OK == 0

EXIT_NOT_FOUND == 3

\* class OutputFormat
OutputFormats == {"table", "json", "md"}

RoundDigits == 8    \* round(hit.score, 8)

\* 10 ** n
RECURSIVE Pow10(_)
Pow10(n) == IF n = 0 THEN 1 ELSE 10 * Pow10(n - 1)

\* round(hit.score, 8): a score is held in units of 1/Scale, the rounded
\* score as its whole part and its eight decimals
Round8(score) ==
    [whole |-> score \div Scale,
     frac  |-> (score % Scale) * (Pow10(RoundDigits) \div Scale)]

\* format(score, ".<digits>f") of a rounded score: the whole part and the
\* decimals kept
FormatScore(rounded, digits) ==
    LET unit == Pow10(RoundDigits - digits)
        kept == (2 * rounded.frac + unit) \div (2 * unit)
    IN  [whole |-> rounded.whole + (kept \div Pow10(digits)),
         frac  |-> kept % Pow10(digits)]

\* faulty variant: the payload lists the hits in reverse
HitsPayloadReversed(hits) ==
    [i \in 1..Len(hits) |->
        LET hit == hits[Len(hits) + 1 - i]
        IN  [path    |-> hit.path,
             score   |-> Round8(hit.score),
             line    |-> hit.line,
             snippet |-> hit.snippet]]

\* the list comprehension of data["hits"] (cli.py:179-187)
HitsPayload(hits) ==
    [i \in 1..Len(hits) |->
        [path    |-> hits[i].path,
         score   |-> Round8(hits[i].score),
         line    |-> hits[i].line,
         snippet |-> hits[i].snippet]]

\* render_md and render_table: one row for each hit of the payload
RenderRows(output_format, payload_hits) ==
    [i \in 1..Len(payload_hits) |->
        [path    |-> payload_hits[i].path,
         line    |-> payload_hits[i].line,
         score   |-> FormatScore(payload_hits[i].score,
                                 IF output_format = "md" THEN 4 ELSE 2),
         snippet |-> payload_hits[i].snippet]]

\* _emit_error: prints, then raises typer.Exit(code=exit_code)
EmitError(command, output_format, exit_code, code, message) ==
    [kind      |-> "exit",
     format    |-> output_format,
     exit_code |-> exit_code,
     printed   |->
        IF output_format = "json"
        THEN [ok        |-> FALSE,
              command   |-> command,
              exit_code |-> exit_code,
              error     |-> [code |-> code, message |-> message]]
        ELSE [command |-> command, code |-> code, message |-> message]]

\* _emit_success: prints and returns; the command then ends with status 0
EmitSuccess(command, output_format, data) ==
    [kind      |-> "exit",
     format    |-> output_format,
     exit_code |-> EXIT_OK,
     printed   |->
        IF output_format = "json"
        THEN [ok        |-> TRUE,
              command   |-> command,
              exit_code |-> EXIT_OK,
              data      |-> data]
        ELSE [command |-> command,
              rows    |-> RenderRows(output_format, data.hits)]]

\* search_repo after search_markdown has returned hits
SearchRepoOutcome(hits, output_format, max_hits) ==
    IF Len(hits) = 0
    THEN EmitError("search", output_format, EXIT_NOT_FOUND, "no_matches",
                   "No matches found.")
    ELSE EmitSuccess("search", output_format,
                     [query |-> query,
                      scope |-> scope,
                      limit |-> max_hits,
                      hits  |-> HitsPayload(hits)])

-----------------------------------------------------------------------------
(* search_markdown, statement by statement where the file system is touched *)

\* faulty variant: the early return of search.py:53-54 left out
NoTokensNever(tokens) == FALSE

\* "if not query_tokens" (search.py:53)
NoTokens(tokens) == Len(tokens) = 0

\* "if not files" (search.py:57)
NoFiles(paths) == Len(paths) = 0

\* search.py:52-54
TokenizeQuery ==
    /\ pc = "start"
    /\ query_tokens' = Tokenize(query)
    /\ IF NoTokens(query_tokens')
       THEN pc' = "done" /\ result' = <<>>
       ELSE pc' = "enumerate" /\ UNCHANGED result
    /\ UNCHANGED <<fs, scope, query, limit, files, docs, scan, listed, deleted,
                   cliOut>>
    /\ UNCHANGED <<syncVars, ctxVars>>

\* search.py:56-58
Enumerate ==
    /\ pc = "enumerate"
    /\ files' = IterMarkdownFiles(fs)
    /\ listed' = TRUE
    /\ IF NoFiles(files')
       THEN pc' = "done" /\ result' = <<>>
       ELSE pc' = "read" /\ UNCHANGED result
    /\ UNCHANGED <<fs, scope, query, limit, query_tokens, docs, scan, deleted,
                   cliOut>>
    /\ UNCHANGED <<syncVars, ctxVars>>

\* the entry of the tree a path names, if it is still there
Present(path) == \E i \in 1..Len(fs) : fs[i].name = path

ContentOf(path) == fs[CHOOSE i \in 1..Len(fs) : fs[i].name = path].content

\* search.py:61-63, one iteration: read_text raises when the file is gone
ReadFile ==
    /\ pc = "read"
    /\ Len(docs) < Len(files)
    /\ LET path == files[Len(docs) + 1]
       IN  IF Present(path)
           THEN /\ docs' = Append(docs, [path |-> path, content |-> ContentOf(path)])
                /\ pc' = "read"
           ELSE /\ pc' = "error"
                /\ UNCHANGED docs
    /\ UNCHANGED <<fs, scope, query, limit, query_tokens, files, scan, result,
                   listed, deleted, cliOut>>
    /\ UNCHANGED <<syncVars, ctxVars>>

\* search.py:65-86.  The limit argument is read by the return statement only,
\* so its value is drawn here.
Rank ==
    /\ pc = "read"
    /\ Len(docs) = Len(files)
    /\ scan' = ScanDocs(docs, query_tokens)
    /\ \E l \in Limits :
          /\ limit' = <<l>>
          /\ result' = SliceTo(SortHits(KeptHits(scan')), l)
    /\ pc' = "done"
    /\ UNCHANGED <<fs, scope, query, query_tokens, files, docs, listed, deleted,
                   cliOut>>
    /\ UNCHANGED <<syncVars, ctxVars>>

\* A third party removes a file the search has listed and not read yet (a
\* removal before the listing is another initial tree, a removal after the
\* read is not seen by the search).
RemoveAt(tree, i) == SubSeq(tree, 1, i - 1) \o SubSeq(tree, i + 1, Len(tree))

DeleteFile ==
    /\ pc = "read"
    /\ ~ deleted
    /\ \E i \in 1..Len(fs) :
          /\ \E k \in (Len(docs) + 1)..Len(files) : files[k] = fs[i].name
          /\ fs' = RemoveAt(fs, i)
    /\ deleted' = TRUE
    /\ UNCHANGED <<scope, query, limit, pc, query_tokens, files, docs, scan,
                   result, listed, cliOut>>
    /\ UNCHANGED <<syncVars, ctxVars>>

NextSearch == TokenizeQuery \/ Enumerate \/ ReadFile \/ Rank \/ DeleteFile

SpecSearch == InitSearch /\ [][NextSearch]_vars

-----------------------------------------------------------------------------
(* The search command: search_markdown run to its end, then the output *)

\* search_markdown(query, scope, limit) with no other party at work: the
\* locals it computes up to the sort of search.py:85
SearchMarkdown(tree, text) ==
    LET tokens == Tokenize(text)
        paths  == IF NoTokens(tokens) THEN <<>> ELSE IterMarkdownFiles(tree)
        read   == [k \in 1..Len(paths) |->
                     [path    |-> paths[k],
                      content |-> tree[CHOOSE i \in 1..Len(tree) :
                                          tree[i].name = paths[k]].content]]
        scored == IF NoFiles(paths) THEN <<>> ELSE ScanDocs(read, tokens)
    IN  [query_tokens |-> tokens,
         listed       |-> ~ NoTokens(tokens),
         files        |-> paths,
         docs         |-> read,
         scan         |-> scored,
         hits         |-> SortHits(KeptHits(scored))]

\* cli.py:157-215: search_repo calls search_markdown and hands the list it
\* returned to _emit_error or _emit_success
SearchRepo ==
    /\ pc = "start"
    /\ cliOut = NoOutput
    /\ LET run == SearchMarkdown(fs, query)
       IN  /\ query_tokens' = run.query_tokens
           /\ listed' = run.listed
           /\ files' = run.files
           /\ docs' = run.docs
           /\ scan' = run.scan
           /\ \E l \in Limits :
                 /\ limit' = <<l>>
                 /\ result' = SliceTo(run.hits, l)
           /\ \E output_format \in OutputFormats :
                 cliOut' = SearchRepoOutcome(result', output_format, limit'[1])
    /\ pc' = "done"
    /\ UNCHANGED <<fs, scope, query, deleted>>
    /\ UNCHANGED <<syncVars, ctxVars>>

\* documents and queries of a command run
CliDocuments == {<<>>, <<"a">>, <<"B">>, <<"a", " ", "B">>}

CliTrees == {TreeOf(cs) : cs \in SeqsUpTo(CliDocuments, MaxFiles)}

CliQueries == (CliDocuments \ {<<>>}) \cup BlankQueries

InitSearchCli ==
    /\ fs \in CliTrees
    /\ query \in CliQueries
    /\ SearchIdle
    /\ SyncUnused
    /\ ContextUnused

NextSearchCli == SearchRepo

SpecSearchCli == InitSearchCli /\ [][NextSearchCli]_vars

-----------------------------------------------------------------------------
(* sync.py *)

\* config.REPO_TYPES; a type name is a text of one chunk
REPO_TYPES == {<<"agent">>, <<"ml">>, <<"data">>, <<"app">>, <<"automation">>}

SHARED == <<"_shared">>

\* characters in code-point order, for the order of sorted()
CodeOrder == <<" ", "-", ".", "/", "0", "2", "A", "B", "D", "M", "U", "_", "a",
               "b", "j">>

Code(c) == CHOOSE k \in 1..Len(CodeOrder) : CodeOrder[k] = c

\* s < t for Python strings
RECURSIVE StrLess(_, _)
StrLess(s, t) ==
    IF Len(t) = 0 THEN FALSE
    ELSE IF Len(s) = 0 THEN TRUE
    ELSE IF s[1] = t[1] THEN StrLess(Tail(s), Tail(t))
    ELSE Code(s[1]) < Code(t[1])

\* sorted(S) for a set of strings
RECURSIVE Sorted(_)
Sorted(S) ==
    IF S = {} THEN <<>>
    ELSE LET least == CHOOSE x \in S : \A y \in S \ {x} : StrLess(x, y)
         IN  <<least>> \o Sorted(S \ {least})

\* rglob("*.j2"): the names that end in ".j2"
EndsWithJ2(name) ==
    /\ Len(name) >= 3
    /\ SubSeq(name, Len(name) - 2, Len(name)) = <<".", "j", "2">>

\* str(relative)[:-3]
DropSuffix(name) == SubSeq(name, 1, Len(name) - 3)

\* _expected_files
ExpectedFiles(repo_type) ==
    UNION {IF sc \in DOMAIN templates
           THEN {DropSuffix(n) : n \in {x \in templates[sc] : EndsWithJ2(x)}}
           ELSE {}
           : sc \in {SHARED, repo_type}}

\* _canonical_files_union
CanonicalFilesUnion == UNION {ExpectedFiles(candidate) : candidate \in REPO_TYPES}

\* (root / path).exists()
Exists(path) == path \in disk

\* faulty variant: the paths are not filtered by their absence from disk
MissingUnfiltered(expected) == Sorted(expected)

\* sync.py:70
Missing(expected) == Sorted({path \in expected : ~ Exists(path)})

\* faulty variant: every canonical path whose presence differs from what the
\* type expects
UnexpectedAnyMismatch(expected, all_canonical) ==
    Sorted({path \in all_canonical : (path \in expected) # Exists(path)})

\* faulty variant: every path on disk the type does not expect
UnexpectedAnyOnDisk(expected, all_canonical) ==
    Sorted({path \in disk : path \notin expected})

\* sync.py:73-74
Unexpected(expected, all_canonical) ==
    Sorted({path \in (all_canonical \ expected) : Exists(path)})

SyncError(why) == [kind |-> "SyncError", why |-> why]

\* an exception that is not a SyncError (yaml.YAMLError, AttributeError)
OtherError(why) == [kind |-> "error", why |-> why]

Resolved(t) == [kind |-> "type", text |-> t]

\* str(value) of the sidecar's "type" entry
Str(value) == IF value.null THEN <<"None">> ELSE value.text

\* yaml.safe_load(...) or {} followed by data.get("type", "")
DeclaredType ==
    IF sidecar.kind = "map" /\ sidecar.has_type THEN Str(sidecar.type) ELSE <<>>

\* "if repo_type:" -- None and the empty string are both false
Truthy(arg) == arg.given /\ Len(arg.text) > 0

\* the sidecar branch of _load_repo_type (sync.py:28-36)
DetectRepoType ==
    IF sidecar.kind = "absent" THEN SyncError("missing_marker")
    ELSE IF sidecar.kind = "invalid" THEN OtherError("YAMLError")
    ELSE IF sidecar.kind = "nonmap" THEN OtherError("AttributeError")
    ELSE LET detected == Strip(DeclaredType)
         IN  IF detected \notin REPO_TYPES THEN SyncError("undetected")
             ELSE Resolved(detected)

\* faulty variants of _load_repo_type: the sidecar consulted before the
\* argument; the argument not checked against REPO_TYPES; the declared type
\* not checked against REPO_TYPES
LoadRepoTypeSidecarFirst(arg) ==
    IF sidecar.kind # "absent" THEN DetectRepoType
    ELSE IF Truthy(arg)
         THEN IF arg.text \notin REPO_TYPES THEN SyncError("unsupported")
              ELSE Resolved(arg.text)
         ELSE DetectRepoType

LoadRepoTypeUnchecked(arg) ==
    IF Truthy(arg) THEN Resolved(arg.text) ELSE DetectRepoType

LoadRepoTypeAnyDeclared(arg) ==
    IF Truthy(arg)
    THEN IF arg.text \notin REPO_TYPES THEN SyncError("unsupported")
         ELSE Resolved(arg.text)
    ELSE IF sidecar.kind = "map" /\ sidecar.has_type
         THEN Resolved(Strip(DeclaredType))
         ELSE DetectRepoType

\* _load_repo_type
LoadRepoType(arg) ==
    IF Truthy(arg)
    THEN IF arg.text \notin REPO_TYPES THEN SyncError("unsupported")
         ELSE Resolved(arg.text)
    ELSE DetectRepoType

\* analyze_sync: the value returned or the exception raised
AnalyzeSyncResult(arg) ==
    IF repo # "dir" THEN SyncError("bad_path")
    ELSE LET resolved == LoadRepoType(arg)
         IN  IF resolved.kind # "type" THEN resolved
             ELSE LET expected == ExpectedFiles(resolved.text)
                  IN  [kind       |-> "report",
                       repo_type  |-> resolved.text,
                       missing    |-> Missing(expected),
                       unexpected |-> Unexpected(expected, CanonicalFilesUnion)]

-----------------------------------------------------------------------------
(* The inputs of a drift analysis *)

MaxTemplates == 1    \* template files in one scope of the template tree

\* the scope directories of the template tree; the other types have none
TemplateScopes == {SHARED, <<"agent">>, <<"ml">>}

\* file names in a template scope; the last one is not a template
TemplateNames == {<<"A", ".", "j", "2">>, <<"M", ".", "j", "2">>,
                  <<"M", ".", "a">>}

\* paths under the repository; U belongs to no template
RepoPaths == {<<"A">>, <<"M">>, <<"U">>}

TemplateTrees ==
    [TemplateScopes -> {ns \in SUBSET TemplateNames : Cardinality(ns) <= MaxTemplates}]

NoArg == [given |-> FALSE, text |-> <<>>]

Given(t) == [given |-> TRUE, text |-> t]

TypeArgs == {NoArg, Given(<<>>), Given(<<"agent">>), Given(<<"ml">>),
             Given(<<"data">>), Given(<<"bogus">>), Given(<<" ", "agent">>)}

TypeValue(t) == [null |-> FALSE, text |-> t]

NullValue == [null |-> TRUE, text |-> <<>>]

Sidecars ==
    {[kind |-> k, has_type |-> FALSE, type |-> NullValue]
        : k \in {"absent", "invalid", "nonmap", "empty", "map"}}
    \cup {[kind |-> "map", has_type |-> TRUE, type |-> v]
            : v \in {NullValue, TypeValue(<<>>), TypeValue(<<"agent">>),
                     TypeValue(<<"ml">>), TypeValue(<<"bogus">>),
                     TypeValue(<<" ", "agent", " ">>)}}

NoCall == [kind |-> "none"]

SearchUnused ==
    /\ fs = <<>>
    /\ scope = <<>>
    /\ query = <<>>
    /\ limit = NoLimit
    /\ pc = "unused"
    /\ query_tokens = <<>>
    /\ files = <<>>
    /\ docs = <<>>
    /\ scan = <<>>
    /\ result = <<>>
    /\ listed = FALSE
    /\ deleted = FALSE
    /\ cliOut = NoOutput

InitSync ==
    /\ templates \in TemplateTrees
    /\ \/ /\ repo = "dir"
          /\ disk \in SUBSET RepoPaths
          /\ sidecar \in Sidecars
       \/ /\ repo \in {"file", "absent"}
          /\ disk = {}
          /\ sidecar \in {sc \in Sidecars : sc.kind = "absent"}
    /\ syncArg = NoArg
    /\ syncOut = NoCall
    /\ scaffoldOut = NoCall
    /\ SearchUnused
    /\ ContextUnused

\* a call analyze_sync(repo_path, repo_type); it reads and never writes
AnalyzeSync ==
    /\ syncOut = NoCall
    /\ \E arg \in TypeArgs :
          /\ syncArg' = arg
          /\ syncOut' = AnalyzeSyncResult(arg)
    /\ UNCHANGED <<templates, repo, disk, sidecar, scaffoldOut>>
    /\ UNCHANGED <<searchVars, ctxVars>>

NextSync == AnalyzeSync

SpecSync == InitSync /\ [][NextSync]_vars

-----------------------------------------------------------------------------
(* scaffold.py: scaffold_project, followed by a drift analysis *)

ScaffoldError(why) == [kind |-> "ScaffoldError", why |-> why]

\* the directories of scaffold.py:91-92
ScaffoldDirs == {<<"e", "p", "i", "c", "s">>, <<"t", "e", "m", "p">>,
                 <<"n", "o", "t", "e", "b", "o", "o", "k", "s">>}

\* _iter_template_files of one scope, as destination paths (scaffold.py:33-36
\* and 72-73); every entry of the template tree is a regular file
TemplateOutputs(sc) ==
    IF sc \in DOMAIN templates
    THEN {DropSuffix(n) : n \in {x \in templates[sc] : EndsWithJ2(x)}}
    ELSE {}

\* faulty variant: the shared scope is not rendered
WrittenFilesTypeOnly(repo_type) == TemplateOutputs(repo_type)

\* the files the loop of scaffold.py:69-79 writes
WrittenFiles(repo_type) == TemplateOutputs(SHARED) \cup TemplateOutputs(repo_type)

\* yaml.safe_dump of the metadata (scaffold.py:81-89), as sync.py loads it
WrittenSidecar(repo_type) ==
    [kind |-> "map", has_type |-> TRUE, type |-> TypeValue(repo_type)]

\* the repo_type option of a scaffold
ScaffoldTypes == REPO_TYPES \cup {<<"bogus">>}

\* before a scaffold: no target directory, or one that holds files already
InitScaffold ==
    /\ templates \in TemplateTrees
    /\ \/ repo = "absent" /\ disk = {}
       \/ repo = "dir" /\ disk \in SUBSET RepoPaths
    /\ sidecar \in {sc \in Sidecars : sc.kind = "absent"}
    /\ syncArg = NoArg
    /\ syncOut = NoCall
    /\ scaffoldOut = NoCall
    /\ SearchUnused
    /\ ContextUnused

\* scaffold_project(options) with destination_root / slug = repo_path
ScaffoldProject ==
    /\ scaffoldOut = NoCall
    /\ syncOut = NoCall
    /\ \E repo_type \in ScaffoldTypes, force \in BOOLEAN :
          IF repo_type \notin REPO_TYPES
          THEN /\ scaffoldOut' = ScaffoldError("unsupported")
               /\ UNCHANGED <<repo, disk, sidecar>>
          ELSE IF repo # "absent" /\ ~ force
          THEN /\ scaffoldOut' = ScaffoldError("exists")
               /\ UNCHANGED <<repo, disk, sidecar>>
          ELSE /\ scaffoldOut' = [kind      |-> "created",
                                  repo_type |-> repo_type,
                                  fresh     |-> repo = "absent",
                                  written   |-> WrittenFiles(repo_type)]
               /\ repo' = "dir"
               /\ disk' = disk \cup WrittenFiles(repo_type) \cup ScaffoldDirs
               /\ sidecar' = WrittenSidecar(repo_type)
    /\ UNCHANGED <<templates, syncArg, syncOut>>
    /\ UNCHANGED <<searchVars, ctxVars>>

NextScaffold == ScaffoldProject \/ AnalyzeSync

SpecScaffold == InitScaffold /\ [][NextScaffold]_vars

-----------------------------------------------------------------------------
(* Properties of search_markdown *)

Returned == pc = "done"

\* the document a hit was made from
DocOf(path) == docs[CHOOSE j \in 1..Len(docs) : docs[j].path = path]

\* position of a path in the enumeration
EnumIndex(path) == CHOOSE k \in 1..Len(files) : files[k] = path

\* multiplicity of a token in a token list
Mult(t, tokens) == Cardinality({i \in 1..Len(tokens) : tokens[i] = t})

\* C1: every returned hit has score > 0, and is made from a document that has
\* at least one token and shares at least one token with the query.
C1_ScorePositive ==
    \A i \in 1..Len(result) :
        LET dtokens == Tokenize(DocOf(result[i].path).content)
        IN  /\ result[i].score > 0
            /\ Len(dtokens) > 0
            /\ Range(dtokens) \cap Range(query_tokens) # {}

\* a search returned a hit and dropped a document without a common token
C1_Witness ==
    /\ Returned
    /\ Len(result) >= 1
    /\ \E j \in 1..Len(docs) :
          /\ Range(Tokenize(docs[j].content)) \cap Range(query_tokens) = {}
          /\ \A i \in 1..Len(result) : result[i].path # docs[j].path

\* C2: the returned list is ordered by non-increasing score.
C2_RankingOrder ==
    \A i \in 1..(Len(result) - 1) : result[i].score >= result[i + 1].score

\* two hits were returned in the reverse of their enumeration order, the
\* higher score first
C2_Witness ==
    /\ Returned
    /\ Len(result) >= 2
    /\ result[1].score > result[2].score
    /\ EnumIndex(result[1].path) > EnumIndex(result[2].path)

\* C3: a limit <= 0 gives an empty result.
C3_NonPositiveLimitEmpty ==
    (Returned /\ limit # NoLimit /\ limit[1] <= 0) => result = <<>>

\* C4: a query without tokens returns the empty list at once: nothing is
\* enumerated, nothing is read, and the search does not fail.
HasNoWordChar(text) == \A i \in 1..Len(text) : text[i] \notin WordChars

C4_VacuousQuery ==
    (HasNoWordChar(query) /\ pc # "start") =>
        /\ Returned
        /\ result = <<>>
        /\ ~ listed
        /\ files = <<>>
        /\ docs = <<>>

\* a search with a blank, non-empty query over a tree that has files returned
C4_Witness ==
    /\ Returned
    /\ Len(query) > 0
    /\ HasNoWordChar(query)
    /\ Len(fs) > 0

\* C5: the overlap of a document is the size of the multiset intersection of
\* the query tokens and the document tokens (the sum over the distinct query
\* tokens of the smaller multiplicity); a token twice in the query and once in
\* the document counts once.
MultisetIntersectionSize(qtokens, dtokens) ==
    Cardinality({i \in 1..Len(qtokens) :
                    Mult(qtokens[i], SubSeq(qtokens, 1, i)) <= Mult(qtokens[i], dtokens)})

RepeatedOnceCase(qtokens, dtokens) ==
    /\ Len(qtokens) = 2
    /\ qtokens[1] = qtokens[2]
    /\ Mult(qtokens[1], dtokens) = 1

C5_Overlap ==
    \A j \in 1..Len(scan) :
        LET dtokens == Tokenize(docs[j].content)
        IN  /\ scan[j].overlap = MultisetIntersectionSize(query_tokens, dtokens)
            /\ RepeatedOnceCase(query_tokens, dtokens) => scan[j].overlap = 1

\* a document was scored that holds once the token the query holds twice
C5_Witness ==
    /\ Returned
    /\ \E j \in 1..Len(scan) :
          /\ RepeatedOnceCase(query_tokens, Tokenize(docs[j].content))
          /\ scan[j].kept

\* C6 as stated: the reported line is the earliest line that holds the largest
\* number of distinct query tokens.
DistinctTokensIn(line) ==
    Cardinality({t \in Range(query_tokens) : IsSubstring(t, Lower(line))})

\* number of positions of the query token list whose token the line holds
TokenOccurrencesIn(line) ==
    Cardinality({i \in 1..Len(query_tokens) :
                    IsSubstring(query_tokens[i], Lower(line))})

EarliestBest(count(_), lines, n) ==
    /\ n \in 1..Len(lines)
    /\ \A j \in 1..Len(lines) :
          /\ count(lines[j]) <= count(lines[n])
          /\ j < n => count(lines[j]) < count(lines[n])

-----------------------------------------------------------------------------
(* Properties of analyze_sync *)

Called == syncOut # NoCall

Reported == Called /\ syncOut.kind = "report"

\* the call named a type of REPO_TYPES
ExplicitValidType == syncArg.given /\ syncArg.text \in REPO_TYPES

\* C7: the missing and the unexpected paths of a report are disjoint.
C7_Disjoint ==
    Reported => Range(syncOut.missing) \cap Range(syncOut.unexpected) = {}

\* a report lists a missing path and an unexpected path
C7_Witness ==
    /\ Reported
    /\ Len(syncOut.missing) > 0
    /\ Len(syncOut.unexpected) > 0

\* C8: with an explicit known type and an existing repository directory the
\* call returns a report for that type, made from the template tree and the
\* files on disk alone, whatever the sidecar is.
C8_ExplicitTypeWins ==
    (Called /\ repo = "dir" /\ ExplicitValidType) =>
        /\ syncOut.kind = "report"
        /\ syncOut.repo_type = syncArg.text
        /\ Range(syncOut.missing) = ExpectedFiles(syncArg.text) \ disk
        /\ Range(syncOut.unexpected) =
               (CanonicalFilesUnion \ ExpectedFiles(syncArg.text)) \cap disk

\* a report for the explicit type where the sidecar declares another known type
C8_Witness ==
    /\ Reported
    /\ ExplicitValidType
    /\ sidecar.kind = "map"
    /\ sidecar.has_type
    /\ Str(sidecar.type) \in REPO_TYPES \ {syncArg.text}

\* C9 as stated, in its weakest reading: every supplied type string outside
\* REPO_TYPES, the empty string included, makes the call fail with a SyncError
\* (the claim adds that it is the invalid-type one).
C9_InvalidTypeRejected ==
    (Called /\ repo = "dir" /\ syncArg.given /\ syncArg.text \notin REPO_TYPES) =>
        syncOut.kind = "SyncError"

\* C9 amended: every supplied non-empty type string outside REPO_TYPES is
\* rejected as an unsupported type, whatever the sidecar declares.
C9_NonEmptyInvalidTypeRejected ==
    (/\ Called
     /\ repo = "dir"
     /\ syncArg.given
     /\ Len(syncArg.text) > 0
     /\ syncArg.text \notin REPO_TYPES) =>
        syncOut = SyncError("unsupported")

\* an unknown type was rejected although the sidecar declares a known type
C9_Witness ==
    /\ Called
    /\ syncArg.given
    /\ Len(syncArg.text) > 0
    /\ syncArg.text \notin REPO_TYPES
    /\ sidecar.kind = "map"
    /\ sidecar.has_type
    /\ Str(sidecar.type) \in REPO_TYPES
    /\ syncOut.kind = "SyncError"

\* C10: without a type argument the type comes from the sidecar: no sidecar
\* is a SyncError, a sidecar whose declared type is missing or unknown is a
\* SyncError, and a known declared type is the repo_type of the report.  The
\* sidecar is a YAML mapping or an empty document; the declared type is its
\* "type" entry without surrounding blanks.
HasDeclaredType ==
    sidecar.kind = "map" /\ sidecar.has_type /\ ~ sidecar.type.null

Declared == Strip(sidecar.type.text)

TemplatedIn(sc) ==
    IF sc \in DOMAIN templates
    THEN {p \in RepoPaths : (p \o <<".", "j", "2">>) \in templates[sc]}
    ELSE {}

\* the paths templated for a type: the shared scope and the scope of the type
TemplatedFor(t) == TemplatedIn(SHARED) \cup TemplatedIn(t)

\* a list in strictly ascending lexicographic order (so without duplicates)
StrictlyAscending(list) ==
    \A i \in 1..(Len(list) - 1) : StrLess(list[i], list[i + 1])

\* C11: the missing list of a report holds exactly the paths templated for the
\* resolved type (shared scope and type scope) that do not exist under the
\* repository, in lexicographic order and without duplicates; an expected
\* file that is not on disk is in the list.
C11_MissingExact ==
    Reported =>
        /\ Range(syncOut.missing) = TemplatedFor(syncOut.repo_type) \ disk
        /\ StrictlyAscending(syncOut.missing)

\* a report lists two missing paths, one of the shared scope and one of the
\* type scope
C11_Witness ==
    /\ Reported
    /\ Len(syncOut.missing) = 2
    /\ syncOut.missing[1] \in TemplatedIn(SHARED)
    /\ syncOut.missing[2] \in TemplatedIn(syncOut.repo_type)

\* C12: the unexpected list of a report holds exactly the paths on disk that
\* are not expected for the resolved type and are expected for another known
\* type, in lexicographic order; a path on disk that no type has a template
\* for is in neither list.
C12_UnexpectedExact ==
    Reported =>
        /\ Range(syncOut.unexpected) =
              {p \in disk :
                  /\ p \notin TemplatedFor(syncOut.repo_type)
                  /\ \E t \in REPO_TYPES \ {syncOut.repo_type} :
                        p \in TemplatedFor(t)}
        /\ StrictlyAscending(syncOut.unexpected)
        /\ \A p \in disk :
              (\A t \in REPO_TYPES : p \notin TemplatedFor(t)) =>
                  /\ p \notin Range(syncOut.unexpected)
                  /\ p \notin Range(syncOut.missing)

\* a report lists a file of another type as unexpected while a file that no
\* type has a template for is on disk
C12_Witness ==
    /\ Reported
    /\ Len(syncOut.unexpected) = 1
    /\ \E p \in disk : \A t \in REPO_TYPES : p \notin TemplatedFor(t)

-----------------------------------------------------------------------------
(* Properties of search_markdown under a concurrent removal *)

\* the search stopped with the exception of a read (search.py:62)
Aborted == pc = "error"

\* C13: a file removed after the enumeration and before its read is skipped;
\* the search never aborts with an error.
C13_DeletedFileSkipped == deleted => ~ Aborted

-----------------------------------------------------------------------------
(* Properties of the search command *)

Emitted == cliOut # NoOutput

\* C14: when search_markdown returns no hits the command ends with exit code
\* EXIT_NOT_FOUND (3) and its JSON output has ok = false and the error code
\* "no_matches"; when it returns a hit the command ends with exit code
\* EXIT_OK (0) and its JSON output has ok = true and lists in data.hits the
\* returned hits in the returned order.
C14_SearchExitCodes ==
    Emitted =>
        IF result = <<>>
        THEN /\ cliOut.exit_code = 3
             /\ cliOut.format # "json" => cliOut.printed.code = "no_matches"
             /\ cliOut.format = "json" =>
                   /\ cliOut.printed.ok = FALSE
                   /\ cliOut.printed.exit_code = 3
                   /\ cliOut.printed.error.code = "no_matches"
        ELSE /\ cliOut.exit_code = 0
             /\ cliOut.format = "json" =>
                   /\ cliOut.printed.ok = TRUE
                   /\ cliOut.printed.exit_code = 0
                   /\ Len(cliOut.printed.data.hits) = Len(result)
                   /\ \A i \in 1..Len(result) :
                         /\ cliOut.printed.data.hits[i].path = result[i].path
                         /\ cliOut.printed.data.hits[i].line = result[i].line
                         /\ cliOut.printed.data.hits[i].snippet = result[i].snippet
             /\ cliOut.format # "json" =>
                   /\ Len(cliOut.printed.rows) = Len(result)
                   /\ \A i \in 1..Len(result) :
                         cliOut.printed.rows[i].path = result[i].path

\* the command printed two hits as JSON
C14_Witness ==
    /\ Emitted
    /\ cliOut.format = "json"
    /\ cliOut.exit_code = 0
    /\ Len(cliOut.printed.data.hits) = 2
    /\ result[1].score > result[2].score

-----------------------------------------------------------------------------
(* Properties of scaffold_project followed by analyze_sync *)

Scaffolded == scaffoldOut # NoCall /\ scaffoldOut.kind = "created"

-----------------------------------------------------------------------------
(* context_memory.py: files, names and repositories *)

\* A file is its bytes: a sequence of characters, or of this token for a byte
\* sequence that is not UTF-8.
InvalidByte == "0xFF"

\* read_text(encoding="utf-8") raises UnicodeDecodeError on such bytes
Decodable(bytes) == \A i \in 1..Len(bytes) : bytes[i] # InvalidByte

\* text mode with newline=None: "\r\n" and "\r" are read as "\n"
RECURSIVE UniversalNewlines(_)
UniversalNewlines(bytes) ==
    IF Len(bytes) = 0 THEN <<>>
    ELSE IF bytes[1] = "\r"
         THEN IF Len(bytes) >= 2 /\ bytes[2] = "\n"
              THEN <<"\n">> \o UniversalNewlines(SubSeq(bytes, 3, Len(bytes)))
              ELSE <<"\n">> \o UniversalNewlines(Tail(bytes))
         ELSE <<bytes[1]>> \o UniversalNewlines(Tail(bytes))

\* the value of read_text on a decodable file
ReadText(bytes) == UniversalNewlines(bytes)

\* os.linesep of the platform
LineSeps == {<<"\n">>, <<"\r", "\n">>}

\* write_text in text mode: every "\n" is written as os.linesep
RECURSIVE WriteText(_, _)
WriteText(text, linesep) ==
    IF Len(text) = 0 THEN <<>>
    ELSE (IF text[1] = "\n" THEN linesep ELSE <<text[1]>>)
             \o WriteText(Tail(text), linesep)

\* A relative path is a text of chunks: a stem, a suffix, a separator.
CONTEXT_FILES == << <<"AGENTS", ".md">>, <<"PROJECT_RULES", ".md">>,
                    <<"LEARNINGS", ".md">>, <<"CHANGELOG", ".md">> >>

\* the chunks in the order of their strings
ChunkOrder == <<" ", "..", ".md", "/", "AGENTS", "CHANGELOG", "LEARNINGS",
                "PROJECT_RULES", "notes">>

ChunkCode(c) == CHOOSE k \in 1..Len(ChunkOrder) : ChunkOrder[k] = c

RECURSIVE NameLess(_, _)
NameLess(s, t) ==
    IF Len(t) = 0 THEN FALSE
    ELSE IF Len(s) = 0 THEN TRUE
    ELSE IF s[1] = t[1] THEN NameLess(Tail(s), Tail(t))
    ELSE ChunkCode(s[1]) < ChunkCode(t[1])

\* sorted(S) for a set of relative paths
RECURSIVE SortedNames(_)
SortedNames(S) ==
    IF S = {} THEN <<>>
    ELSE LET least == CHOOSE x \in S : \A y \in S \ {x} : NameLess(x, y)
         IN  <<least>> \o SortedNames(S \ {least})

\* Path(item).is_absolute() or ".." in Path(item).parts
InvalidRelative(item) == item[1] = "/" \/ ".." \in Range(item)

ContextError(why) == [kind |-> "ContextError", why |-> why]

\* _validate_repo: the error it raises, or <<>>
ValidateRepo(r) ==
    IF r.kind # "dir" THEN <<ContextError("no_repository")>>
    ELSE IF ~ r.marker THEN <<ContextError("no_marker")>>
    ELSE <<>>

\* _context_file_set: the selected paths, or the error it raises
ContextFileSet(requested) ==
    IF ~ requested.given THEN [kind |-> "selected", names |-> CONTEXT_FILES]
    ELSE LET normalized ==
                 SortedNames({Strip(requested.items[i]) : i \in
                                 {j \in 1..Len(requested.items) :
                                     Len(Strip(requested.items[j])) > 0}})
         IN  IF Len(normalized) = 0 THEN ContextError("no_files")
             ELSE IF \E i \in 1..Len(normalized) : InvalidRelative(normalized[i])
                  THEN ContextError("invalid_path")
                  ELSE [kind |-> "selected", names |-> normalized]

\* a directory of files with one more file, with one file less
Put(dir, name, bytes) ==
    [x \in DOMAIN dir \cup {name} |-> IF x = name THEN bytes ELSE dir[x]]

Remove(dir, name) == [x \in DOMAIN dir \ {name} |-> dir[x]]

-----------------------------------------------------------------------------
(* transfer_context *)

\* the loop of context_memory.py:127-144 from the state st of the two
\* repositories and the three lists; a read that fails ends it
RECURSIVE TransferLoop(_, _, _, _)
TransferLoop(selected, mode, linesep, st) ==
    IF Len(selected) = 0 THEN st
    ELSE LET relative == selected[1]
         IN  IF relative \notin DOMAIN st.src
             THEN TransferLoop(Tail(selected), mode, linesep,
                               [st EXCEPT !.skipped = Append(@, relative)])
             ELSE IF ~ Decodable(st.src[relative])
             THEN [st EXCEPT !.raised = <<"UnicodeDecodeError">>]
             ELSE LET content == ReadText(st.src[relative])
                      dst     == Put(st.dst, relative, WriteText(content, linesep))
                  IN  IF mode = "copy"
                      THEN TransferLoop(Tail(selected), mode, linesep,
                               [st EXCEPT !.dst = dst,
                                          !.copied = Append(@, relative)])
                      ELSE TransferLoop(Tail(selected), mode, linesep,
                               [st EXCEPT !.dst = dst,
                                          !.src = Remove(@, relative),
                                          !.moved = Append(@, relative)])

\* transfer_context: the files of the two repositories afterwards and the
\* report returned or the exception raised
TransferResult(src, dst, mode, requested, linesep) ==
    LET unchanged(out) == [src |-> src.files, dst |-> dst.files, out |-> out]
    IN  IF ValidateRepo(src) # <<>> THEN unchanged(ValidateRepo(src)[1])
        ELSE IF ValidateRepo(dst) # <<>> THEN unchanged(ValidateRepo(dst)[1])
        ELSE IF src.path = dst.path THEN unchanged(ContextError("same_repository"))
        ELSE LET selected == ContextFileSet(requested)
             IN  IF selected.kind # "selected" THEN unchanged(selected)
                 ELSE LET st == TransferLoop(selected.names, mode, linesep,
                                    [src |-> src.files, dst |-> dst.files,
                                     copied |-> <<>>, moved |-> <<>>,
                                     skipped |-> <<>>, raised |-> <<>>])
                      IN  [src |-> st.src,
                           dst |-> st.dst,
                           out |-> IF st.raised # <<>>
                                   THEN OtherError(st.raised[1])
                                   ELSE [kind    |-> "report",
                                         mode    |-> mode,
                                         copied  |-> st.copied,
                                         moved   |-> st.moved,
                                         skipped |-> st.skipped]]

-----------------------------------------------------------------------------
(* The inputs of a transfer *)

MaxSourceFiles == 1    \* context files in the source repository

\* paths of files in the source repository
SourceNames == {<<"AGENTS", ".md">>, <<"LEARNINGS", ".md">>, <<"notes", ".md">>}

\* their bytes: one line, two lines ended the Windows and the Unix way, bytes
\* that are not UTF-8
FileBytes == {<<"a">>, <<"a", "\r", "\n", "b">>, <<"a", "\n", "b">>,
              <<InvalidByte>>}

FileMaps(names, contents, n) ==
    UNION {[S -> contents] : S \in {T \in SUBSET names : Cardinality(T) <= n}}

NoFile == [x \in {} |-> <<>>]

\* a repository directory with its marker file
Repo(path, dir) ==
    [path |-> path, kind |-> "dir", marker |-> TRUE, files |-> dir, dirs |-> {}]

Unmarked(path) ==
    [path |-> path, kind |-> "dir", marker |-> FALSE, files |-> NoFile,
     dirs |-> {}]

Absent(path) ==
    [path |-> path, kind |-> "absent", marker |-> FALSE, files |-> NoFile,
     dirs |-> {}]

SourceRepos ==
    {Repo("source", dir) : dir \in FileMaps(SourceNames, FileBytes, MaxSourceFiles)}
    \cup {Unmarked("source"), Absent("source")}

\* the destination: empty, or holding an older AGENTS.md
DestinationRepos ==
    {Repo("destination", NoFile),
     Repo("destination", Put(NoFile, <<"AGENTS", ".md">>, <<"o">>)),
     Unmarked("destination"), Absent("destination")}

\* the files argument: None, or a tuple of strings
NoFilesArg == [given |-> FALSE, items |-> <<>>]

Files(items) == [given |-> TRUE, items |-> items]

FilesArgs ==
    {NoFilesArg,
     Files(<< <<"AGENTS", ".md">> >>),
     Files(<< <<"notes", ".md">>, <<"AGENTS", ".md">>, <<" ", "AGENTS", ".md", " ">> >>),
     Files(<< <<" ">> >>),
     Files(<< <<"..", "/", "AGENTS", ".md">> >>),
     Files(<< <<"/", "AGENTS", ".md">> >>)}

ContextModes == {"copy", "move"}

InitTransfer ==
    /\ source \in SourceRepos
    /\ destination \in DestinationRepos \cup {source}
    /\ ctxBefore = NoCall
    /\ ctxOut = NoCall
    /\ SearchUnused
    /\ SyncUnused

\* a call transfer_context(source_repo, destination_repo, mode, files)
TransferContext ==
    /\ ctxOut = NoCall
    /\ \E mode \in ContextModes, requested \in FilesArgs, linesep \in LineSeps :
          LET res == TransferResult(source, destination, mode, requested, linesep)
          IN  /\ ctxBefore' = [source |-> source, destination |-> destination,
                               mode |-> mode, requested |-> requested]
              /\ source' = [source EXCEPT !.files = res.src]
              /\ destination' =
                    IF destination.path = source.path THEN source'
                    ELSE [destination EXCEPT !.files = res.dst]
              /\ ctxOut' = res.out
    /\ UNCHANGED <<searchVars, syncVars>>

NextTransfer == TransferContext

SpecTransfer == InitTransfer /\ [][NextTransfer]_vars

-----------------------------------------------------------------------------
(* Properties of transfer_context *)

Transferred == ctxOut # NoCall /\ ctxOut.kind = "report"

\* the selected paths of a transfer that returned a report
SelectedNames == ContextFileSet(ctxBefore.requested).names

\* C16: after a transfer in copy mode, every selected file that existed in
\* the source repository is still there with its bytes unchanged, the file of
\* the same path in the destination has the same bytes, the path is in
\* report.copied, and report.moved is empty.
C16_CopyPreservesContent ==
    (Transferred /\ ctxOut.mode = "copy") =>
        /\ ctxOut.moved = <<>>
        /\ \A i \in 1..Len(SelectedNames) :
              LET name == SelectedNames[i]
              IN  name \in DOMAIN ctxBefore.source.files =>
                     /\ name \in DOMAIN source.files
                     /\ source.files[name] = ctxBefore.source.files[name]
                     /\ name \in DOMAIN destination.files
                     /\ destination.files[name] = source.files[name]
                     /\ name \in Range(ctxOut.copied)

-----------------------------------------------------------------------------
(* compress_context_file *)

\* Path(relative).stem: the last component without its suffix
RECURSIVE LastComponent(_)
LastComponent(path) ==
    IF \E i \in 1..Len(path) : path[i] = "/"
    THEN LastComponent(Tail(path))
    ELSE path

Stem(path) ==
    LET name == LastComponent(path)
    IN  IF Len(name) >= 2 /\ name[Len(name)] = ".md"
        THEN SubSeq(name, 1, Len(name) - 1)
        ELSE name

\* datetime.now(timezone.utc): its date and its "%Y%m%d-%H%M%S" stamp
Today == "2026-01-01"

Stamp == "20260101-000000"

ArchiveDir == <<"memory", "/", "archive">>

\* archive_dir / f"{stem}-{stamp}.md", relative to the repository
ArchivePath(relative) == ArchiveDir \o <<"/">> \o Stem(relative) \o <<"-", Stamp, ".md">>

\* mkdir(parents=True, exist_ok=True) of the archive directory
WithArchiveDir(dirs) == dirs \cup {<<"memory">>, ArchiveDir}

\* the chunk that stands for the backquote character
BackQuote == "<backquote>"

\* the six lines of compression_note (context_memory.py:210-217)
CompressionNote(archived_count, archive_path) ==
    << <<>>,
       <<"## Compression Note">>,
       <<"- Compressed on ", Today, ".">>,
       <<"- Archived ", ToString(archived_count), " lines to ", BackQuote>>
           \o archive_path \o <<BackQuote, ".">>,
       <<"- Promote repeated rules from archived notes into PROJECT_RULES.md or AGENTS.md.">>,
       <<>> >>

\* "\n".join(lines).rstrip() + "\n"
JoinedText(lines) == RStrip(Join(lines, <<"\n">>)) \o <<"\n">>

\* faulty variant: a file of exactly threshold lines is compressed
WithinThresholdStrict(original_lines, threshold) == original_lines < threshold

\* "if original_lines <= threshold" (context_memory.py:183)
WithinThreshold(original_lines, threshold) == original_lines <= threshold

NoPath == <<>>

\* compress_context_file: the repository afterwards and the report returned
\* or the exception raised
CompressResult(r, file_path, threshold, keep_tail_lines, header_lines, linesep) ==
    LET unchanged(out) == [files |-> r.files, dirs |-> r.dirs, out |-> out]
        relative == Strip(file_path)
    IN  IF ValidateRepo(r) # <<>> THEN unchanged(ValidateRepo(r)[1])
        ELSE IF threshold <= 0 THEN unchanged(ContextError("threshold"))
        ELSE IF keep_tail_lines <= 0 THEN unchanged(ContextError("keep_tail"))
        ELSE IF header_lines <= 0 THEN unchanged(ContextError("header_lines"))
        ELSE IF Len(relative) = 0 THEN unchanged(ContextError("empty_file"))
        ELSE IF InvalidRelative(relative) THEN unchanged(ContextError("invalid_path"))
        ELSE IF relative \notin DOMAIN r.files THEN unchanged(ContextError("not_found"))
        ELSE IF ~ Decodable(r.files[relative])
        THEN unchanged(OtherError("UnicodeDecodeError"))
        ELSE
        LET lines          == SplitLines(ReadText(r.files[relative]))
            original_lines == Len(lines)
        IN  IF WithinThreshold(original_lines, threshold)
            THEN unchanged([kind           |-> "report",
                            threshold      |-> threshold,
                            original_lines |-> original_lines,
                            final_lines    |-> original_lines,
                            archived       |-> FALSE,
                            archive_path   |-> NoPath])
            ELSE
            LET head_count   == Min(header_lines, original_lines)
                tail_count   == Min(keep_tail_lines, Max(0, original_lines - head_count))
                middle_end   == original_lines - tail_count
                head         == SubSeq(lines, 1, head_count)
                middle       == SubSeq(lines, head_count + 1, middle_end)
                tail         == SubSeq(lines, middle_end + 1, original_lines)
                archive_path == ArchivePath(relative)
                compressed_lines ==
                    head \o CompressionNote(Len(middle), archive_path) \o tail
                archived_dir == Put(r.files, archive_path,
                                    WriteText(JoinedText(middle), linesep))
            IN  [files |-> Put(archived_dir, relative,
                               WriteText(JoinedText(compressed_lines), linesep)),
                 dirs  |-> WithArchiveDir(r.dirs),
                 out   |-> [kind           |-> "report",
                            threshold      |-> threshold,
                            original_lines |-> original_lines,
                            final_lines    |-> Len(compressed_lines),
                            archived       |-> TRUE,
                            archive_path   |-> archive_path]]

-----------------------------------------------------------------------------
(* The inputs of a compression *)

MaxContextLines == 3    \* lines of the context file

MaxThreshold == 2       \* the threshold argument

MaxKeepTail == 1        \* the keep_tail_lines argument

MaxHeaderLines == 1     \* the header_lines argument

\* the context file: lines that are empty or hold a word, each ended by "\n"
ContextTexts ==
    {Join(ls, <<"\n">>) \o (IF Len(ls) = 0 THEN <<>> ELSE <<"\n">>)
        : ls \in SeqsUpTo({<<"a">>, <<>>}, MaxContextLines)}

\* the file_path argument
FilePaths == {<<"LEARNINGS", ".md">>, <<" ", "LEARNINGS", ".md">>, <<" ">>,
              <<"..", "/", "LEARNINGS", ".md">>, <<"notes", ".md">>}

\* the repository: LEARNINGS.md, with or without an archive directory
CompressRepos ==
    {[Repo("source", Put(NoFile, <<"LEARNINGS", ".md">>, text)) EXCEPT !.dirs = ds]
        : text \in ContextTexts \cup {<<InvalidByte>>},
          ds \in {{}, WithArchiveDir({})}}
    \cup {Unmarked("source"), Absent("source")}

InitCompress ==
    /\ source \in CompressRepos
    /\ destination = Absent("destination")
    /\ ctxBefore = NoCall
    /\ ctxOut = NoCall
    /\ SearchUnused
    /\ SyncUnused

\* a call compress_context_file(repo_path, file_path, threshold,
\* keep_tail_lines, header_lines)
CompressContextFile ==
    /\ ctxOut = NoCall
    /\ \E file_path \in FilePaths, threshold \in 0..MaxThreshold,
          keep_tail_lines \in 0..MaxKeepTail, header_lines \in 0..MaxHeaderLines,
          linesep \in LineSeps :
          LET res == CompressResult(source, file_path, threshold, keep_tail_lines,
                                    header_lines, linesep)
          IN  /\ ctxBefore' = [source          |-> source,
                               file_path       |-> file_path,
                               threshold       |-> threshold,
                               keep_tail_lines |-> keep_tail_lines,
                               header_lines    |-> header_lines]
              /\ source' = [source EXCEPT !.files = res.files, !.dirs = res.dirs]
              /\ ctxOut' = res.out
    /\ UNCHANGED destination
    /\ UNCHANGED <<searchVars, syncVars>>

NextCompress == CompressContextFile

SpecCompress == InitCompress /\ [][NextCompress]_vars

-----------------------------------------------------------------------------
(* Properties of compress_context_file *)

CompressCalled == ctxOut # NoCall

\* the call named an existing UTF-8 file of a repository and gave positive
\* numbers
ValidCompression ==
    /\ CompressCalled
    /\ ValidateRepo(ctxBefore.source) = <<>>
    /\ ctxBefore.threshold > 0
    /\ ctxBefore.keep_tail_lines > 0
    /\ ctxBefore.header_lines > 0
    /\ Strip(ctxBefore.file_path) \in DOMAIN ctxBefore.source.files
    /\ Decodable(ctxBefore.source.files[Strip(ctxBefore.file_path)])

\* the number of lines of the file when the call was made
LinesBefore ==
    Len(SplitLines(ReadText(ctxBefore.source.files[Strip(ctxBefore.file_path)])))

\* the files under memory/archive
ArchiveFiles(r) ==
    {path \in DOMAIN r.files :
        Len(path) > Len(ArchiveDir) /\ SubSeq(path, 1, Len(ArchiveDir)) = ArchiveDir}

\* C17: a compression of a file whose line count is at most the threshold
\* reports archived = False, no archive path and final_lines = original_lines,
\* leaves the file as it was and creates no archive file and no archive
\* directory.
C17_BelowThresholdUntouched ==
    (ValidCompression /\ LinesBefore <= ctxBefore.threshold) =>
        /\ ctxOut.kind = "report"
        /\ ctxOut.archived = FALSE
        /\ ctxOut.archive_path = NoPath
        /\ ctxOut.original_lines = LinesBefore
        /\ ctxOut.final_lines = ctxOut.original_lines
        /\ source.files = ctxBefore.source.files
        /\ source.dirs = ctxBefore.source.dirs

\* a file of exactly threshold lines was left alone in a repository that has
\* no archive directory
C17_Witness ==
    /\ ValidCompression
    /\ LinesBefore = ctxBefore.threshold
    /\ ctxOut.kind = "report"
    /\ ~ ctxOut.archived
    /\ source.dirs = {}

\* C18: a compression of a file that has more lines than the threshold, for
\* any positive threshold, keep_tail_lines and header_lines, reports
\* archived = True, writes an archive file under memory/archive, and reports
\* final_lines strictly less than original_lines.
C18_ArchiveShrinks ==
    (ValidCompression /\ LinesBefore > ctxBefore.threshold) =>
        /\ ctxOut.kind = "report"
        /\ ctxOut.archived = TRUE
        /\ ctxOut.archive_path \in ArchiveFiles(source)
        /\ ctxOut.final_lines < ctxOut.original_lines

-----------------------------------------------------------------------------
(* Properties of the truncation and of the order of ties *)

\* a search that went through the ranking with a limit of at least 1
RankedWithLimit == Returned /\ limit # NoLimit /\ limit[1] >= 1 /\ Len(scan) > 0

\* positions of the scanned documents that were kept
KeptDocs == {j \in 1..Len(scan) : scan[j].kept}

\* positions of the kept documents that are not in the result
Omitted == {j \in KeptDocs : \A i \in 1..Len(result) : result[i].path # scan[j].path}

\* C19: with a limit of at least 1 the result is the first min(limit, n)
\* entries of the ranked list of the n kept hits: it is never longer than the
\* limit, and no omitted hit scores strictly higher than a returned hit.
C19_LimitKeepsTop ==
    RankedWithLimit =>
        /\ result = SubSeq(SortHits(KeptHits(scan)), 1,
                           Min(limit[1], Cardinality(KeptDocs)))
        /\ Len(result) = Min(limit[1], Cardinality(KeptDocs))
        /\ Len(result) <= limit[1]
        /\ \A j \in Omitted : \A i \in 1..Len(result) :
              scan[j].hit.score <= result[i].score

\* the limit cut off a hit that scores strictly lower than the returned hit,
\* although it was enumerated first
C19_Witness ==
    /\ RankedWithLimit
    /\ Len(result) = 1
    /\ \E j \in Omitted :
          /\ scan[j].hit.score < result[1].score
          /\ j < EnumIndex(result[1].path)

\* C20: hits of equal score are in the result in the order their files were
\* enumerated, and when the limit cuts between hits of equal score the ones
\* enumerated first are the ones returned.
C20_TiesInScanOrder ==
    RankedWithLimit =>
        /\ \A i \in 1..Len(result) : \A k \in (i + 1)..Len(result) :
              result[i].score = result[k].score =>
                  EnumIndex(result[i].path) < EnumIndex(result[k].path)
        /\ \A j \in Omitted : \A i \in 1..Len(result) :
              scan[j].hit.score = result[i].score =>
                  EnumIndex(result[i].path) < j

\* the limit cut between two hits of equal score
C20_Witness ==
    /\ RankedWithLimit
    /\ Len(result) = 1
    /\ \E j \in Omitted : scan[j].hit.score = result[1].score

-----------------------------------------------------------------------------
(* search_markdown over a tree of directories *)

\* the resolved scope path, as its parts below the root
ScopePaths == {<<"home", "repo">>, <<"build", "repo">>, <<"home", "dist">>}

\* the directories between the scope and a file
TreeDirs == {<<>>, <<"docs">>, <<"node_modules">>, <<"docs", "build">>}

\* the i-th entry: a markdown file holding the word "a" in a directory
DirEntry(i, dirs) ==
    [dirs |-> dirs, name |-> FileNames[i], suffix |-> ".md", kind |-> "file",
     content |-> <<"a">>]

DirTrees ==
    {[i \in 1..Len(ds) |-> DirEntry(i, ds[i])] : ds \in SeqsUpTo(TreeDirs, MaxFiles)}

InitSearchTree ==
    /\ scope \in ScopePaths
    /\ fs \in DirTrees
    /\ query = <<"a">>
    /\ limit = NoLimit
    /\ pc = "start"
    /\ query_tokens = <<>>
    /\ files = <<>>
    /\ docs = <<>>
    /\ scan = <<>>
    /\ result = <<>>
    /\ listed = FALSE
    /\ deleted = FALSE
    /\ cliOut = NoOutput
    /\ SyncUnused
    /\ ContextUnused

NextSearchTree == TokenizeQuery \/ Enumerate \/ ReadFile \/ Rank

SpecSearchTree == InitSearchTree /\ [][NextSearchTree]_vars

\* no directory between the scope and the entry is in the skip-set
OutsideSkipDirs(entry) == \A i \in 1..Len(entry.dirs) : entry.dirs[i] \notin SKIP_DIRS

\* C21: once the scope is enumerated, the candidates are the markdown files
\* under the scope that are not inside a directory of the skip-set; such a
\* file is a candidate whatever the names of the directories above the scope.
C21_CandidatesUnderScope ==
    listed =>
        \A i \in 1..Len(fs) :
            (fs[i].suffix = ".md" /\ fs[i].kind = "file") =>
                (fs[i].name \in Range(files) <=> OutsideSkipDirs(fs[i]))

-----------------------------------------------------------------------------
(* Properties of the score *)

\* the scan record of a returned hit
ScanOf(path) == scan[CHOOSE j \in 1..Len(scan) : scan[j].path = path]

\* the number of tokens of the document a hit was made from
TokenCount(path) == Len(Tokenize(DocOf(path).content))

\* s is overlap / (1 + sqrt(n)) in units of 1/Scale, rounded down, where r is
\* sqrt(n) in the same units, rounded down
IsScoreOf(s, r, overlap, n) ==
    /\ r * r <= n * Scale * Scale
    /\ n * Scale * Scale < (r + 1) * (r + 1)
    /\ s * (Scale + r) <= overlap * Scale * Scale
    /\ overlap * Scale * Scale < (s + 1) * (Scale + r)

\* the number of tokens of each document read, in the order of the scan
RECURSIVE TokenCounts(_)
TokenCounts(ds) ==
    IF Len(ds) = 0 THEN <<>>
    ELSE <<Len(Tokenize(ds[1].content))>> \o TokenCounts(Tail(ds))

\* the position in the scan of each returned hit
RECURSIVE ScanPositions(_)
ScanPositions(hits) ==
    IF Len(hits) = 0 THEN <<>>
    ELSE <<CHOOSE j \in 1..Len(scan) : scan[j].path = hits[1].path>>
             \o ScanPositions(Tail(hits))

\* C22: the score of a document is overlap / (1 + sqrt(token count)); of two
\* returned documents with the same overlap the one with strictly fewer
\* tokens has the strictly higher score and is ranked first, and of two with
\* the same token count the one with the larger overlap is ranked first.
C22_ScoreFavoursShortAndRelevant ==
    LET count == TokenCounts(docs)
        at    == ScanPositions(result)
    IN  /\ \A j \in 1..Len(scan) :
              IsScoreOf(scan[j].hit.score, ScaledSqrt(count[j]),
                        scan[j].overlap, count[j])
        /\ \A i \in 1..Len(result) : \A k \in 1..Len(result) :
              /\ (/\ scan[at[i]].overlap = scan[at[k]].overlap
                  /\ count[at[i]] < count[at[k]]) =>
                     result[i].score > result[k].score /\ i < k
              /\ (/\ count[at[i]] = count[at[k]]
                  /\ scan[at[i]].overlap > scan[at[k]].overlap) =>
                     i < k

\* two returned documents share the overlap, and the shorter one is first
\* although it was enumerated last
C22_Witness ==
    /\ Returned
    /\ Len(result) = 2
    /\ ScanOf(result[1].path).overlap = ScanOf(result[2].path).overlap
    /\ TokenCount(result[1].path) < TokenCount(result[2].path)
    /\ EnumIndex(result[1].path) > EnumIndex(result[2].path)

-----------------------------------------------------------------------------
(* transfer_context, statement by statement *)

\* faulty variant: the source file is removed before the destination is
\* written
NextStepUnlinkFirst(step, mode) ==
    IF step = "read" THEN (IF mode = "copy" THEN "write" ELSE "unlink")
    ELSE IF step = "unlink" THEN "write"
    ELSE "check"

\* the statement that follows a statement of the loop body
\* (context_memory.py:136-144); "check" is the head of the loop
NextStep(step, mode) ==
    IF step = "read" THEN "write"
    ELSE IF step = "write" THEN (IF mode = "copy" THEN "check" ELSE "unlink")
    ELSE "check"

\* the call is in its loop
Running == ctxOut # NoCall /\ ctxOut.kind = "running"

\* the frame of a statement, and the one after it
Moved(frame, step) ==
    LET next == NextStep(step, frame.mode)
    IN  [frame EXCEPT !.pc = next,
                      !.index = IF next = "check" THEN @ + 1 ELSE @]

\* context_memory.py:116-125: validation, selection, the empty lists
TransferBegin ==
    /\ ctxOut = NoCall
    /\ \E mode \in ContextModes, requested \in FilesArgs, linesep \in LineSeps :
          /\ ctxBefore' = [source |-> source, destination |-> destination,
                           mode |-> mode, requested |-> requested,
                           linesep |-> linesep]
          /\ ctxOut' =
                IF ValidateRepo(source) # <<>> THEN ValidateRepo(source)[1]
                ELSE IF ValidateRepo(destination) # <<>>
                THEN ValidateRepo(destination)[1]
                ELSE IF source.path = destination.path
                THEN ContextError("same_repository")
                ELSE LET selected == ContextFileSet(requested)
                     IN  IF selected.kind # "selected" THEN selected
                         ELSE [kind     |-> "running",
                               pc       |-> "check",
                               mode     |-> mode,
                               linesep  |-> linesep,
                               selected |-> selected.names,
                               index    |-> 1,
                               content  |-> <<>>,
                               copied   |-> <<>>,
                               moved    |-> <<>>,
                               skipped  |-> <<>>]
    /\ UNCHANGED <<source, destination>>
    /\ UNCHANGED <<searchVars, syncVars>>

\* context_memory.py:127-133 and 146-152: the loop head, the test of
\* src_path.exists(), the report after the last file
TransferCheck ==
    /\ Running
    /\ ctxOut.pc = "check"
    /\ IF ctxOut.index > Len(ctxOut.selected)
       THEN ctxOut' = [kind    |-> "report",
                       mode    |-> ctxOut.mode,
                       copied  |-> ctxOut.copied,
                       moved   |-> ctxOut.moved,
                       skipped |-> ctxOut.skipped]
       ELSE LET relative == ctxOut.selected[ctxOut.index]
            IN  IF relative \notin DOMAIN source.files
                THEN ctxOut' = [ctxOut EXCEPT !.skipped = Append(@, relative),
                                              !.index = @ + 1]
                ELSE ctxOut' = [ctxOut EXCEPT !.pc = "read"]
    /\ UNCHANGED <<source, destination, ctxBefore>>
    /\ UNCHANGED <<searchVars, syncVars>>

\* context_memory.py:135-136: the read, which raises on bytes that are not
\* UTF-8
TransferRead ==
    /\ Running
    /\ ctxOut.pc = "read"
    /\ LET relative == ctxOut.selected[ctxOut.index]
       IN  IF ~ Decodable(source.files[relative])
           THEN ctxOut' = OtherError("UnicodeDecodeError")
           ELSE ctxOut' = Moved([ctxOut EXCEPT
                                    !.content = ReadText(source.files[relative])],
                                "read")
    /\ UNCHANGED <<source, destination, ctxBefore>>
    /\ UNCHANGED <<searchVars, syncVars>>

\* context_memory.py:137-140: the write, and copied.append in copy mode
TransferWrite ==
    /\ Running
    /\ ctxOut.pc = "write"
    /\ LET relative == ctxOut.selected[ctxOut.index]
       IN  /\ destination' =
                 [destination EXCEPT
                     !.files = Put(@, relative,
                                   WriteText(ctxOut.content, ctxOut.linesep))]
           /\ ctxOut' = Moved([ctxOut EXCEPT
                                  !.copied = IF ctxOut.mode = "copy"
                                             THEN Append(@, relative) ELSE @],
                              "write")
    /\ UNCHANGED <<source, ctxBefore>>
    /\ UNCHANGED <<searchVars, syncVars>>

\* context_memory.py:142-143: the unlink and moved.append
TransferUnlink ==
    /\ Running
    /\ ctxOut.pc = "unlink"
    /\ LET relative == ctxOut.selected[ctxOut.index]
       IN  /\ source' = [source EXCEPT !.files = Remove(@, relative)]
           /\ ctxOut' = Moved([ctxOut EXCEPT !.moved = Append(@, relative)],
                              "unlink")
    /\ UNCHANGED <<destination, ctxBefore>>
    /\ UNCHANGED <<searchVars, syncVars>>

NextTransferSteps ==
    TransferBegin \/ TransferCheck \/ TransferRead \/ TransferWrite
        \/ TransferUnlink

SpecTransferSteps == InitTransfer /\ [][NextTransferSteps]_vars

-----------------------------------------------------------------------------
(* Properties of the steps of transfer_context *)

TransferCalled == ctxBefore # NoCall

\* how often a path is in a list
Occurrences(name, list) == Cardinality({i \in 1..Len(list) : list[i] = name})

\* the destination file of a path is as it was before the call
DestinationUntouched(name) ==
    /\ name \in DOMAIN destination.files <=>
          name \in DOMAIN ctxBefore.destination.files
    /\ name \in DOMAIN destination.files =>
          destination.files[name] = ctxBefore.destination.files[name]

\* C23: at every moment of a transfer, a file that is gone from the source
\* was moved and its content is already in the destination; a returned report
\* lists every selected path in exactly one of copied, moved and skipped, a
\* path is skipped exactly when the source did not hold it, and then its
\* destination file is untouched; a call whose source is its destination
\* fails with ContextError and writes and deletes nothing.
C23_TransferOrderAndReport ==
    TransferCalled =>
        /\ \A name \in DOMAIN ctxBefore.source.files :
              name \notin DOMAIN source.files =>
                 /\ ctxBefore.mode = "move"
                 /\ name \in DOMAIN destination.files
                 /\ destination.files[name] =
                       WriteText(ReadText(ctxBefore.source.files[name]),
                                 ctxBefore.linesep)
        /\ ctxBefore.source.path = ctxBefore.destination.path =>
              /\ ctxOut.kind = "ContextError"
              /\ source = ctxBefore.source
              /\ destination = ctxBefore.destination
        /\ ctxOut.kind = "report" =>
              \A i \in 1..Len(SelectedNames) :
                 LET name == SelectedNames[i]
                 IN  /\ Occurrences(name, ctxOut.copied \o ctxOut.moved
                                              \o ctxOut.skipped) = 1
                     /\ name \in Range(ctxOut.skipped) <=>
                           name \notin DOMAIN ctxBefore.source.files
                     /\ name \in Range(ctxOut.skipped) => DestinationUntouched(name)

\* a move is between its write and its unlink: the file is in both
\* repositories, after another selected path was skipped
C23_Witness ==
    /\ Running
    /\ ctxOut.pc = "unlink"
    /\ Len(ctxOut.skipped) >= 1
    /\ ctxOut.selected[ctxOut.index] \in DOMAIN source.files
    /\ ctxOut.selected[ctxOut.index] \in DOMAIN destination.files


-----------------------------------------------------------------------------
(* Properties of the split made by compress_context_file *)

\* the call archived
Archived == ValidCompression /\ ctxOut.kind = "report" /\ ctxOut.archived

\* the lines of the file when the call was made
OriginalLines ==
    SplitLines(ReadText(ctxBefore.source.files[Strip(ctxBefore.file_path)]))

HeadCount == Min(ctxBefore.header_lines, Len(OriginalLines))

TailCount == Min(ctxBefore.keep_tail_lines, Max(0, Len(OriginalLines) - HeadCount))

HeadLines == SubSeq(OriginalLines, 1, HeadCount)

MiddleLines == SubSeq(OriginalLines, HeadCount + 1, Len(OriginalLines) - TailCount)

TailLines ==
    SubSeq(OriginalLines, Len(OriginalLines) - TailCount + 1, Len(OriginalLines))

\* the lines of the rewritten file and of the archive file, as a reader of
\* the two files gets them
CompressedFileLines == SplitLines(ReadText(source.files[Strip(ctxBefore.file_path)]))

ArchiveFileLines == SplitLines(ReadText(source.files[ctxOut.archive_path]))

\* the last n entries of a list
LastLines(lines, n) == SubSeq(lines, Len(lines) - n + 1, Len(lines))

\* head, middle and tail are contiguous slices that cover the original lines
\* in order, within the two counts asked for
SplitCoversLines ==
    /\ HeadCount + Len(MiddleLines) + TailCount = Len(OriginalLines)
    /\ HeadCount <= ctxBefore.header_lines
    /\ TailCount <= ctxBefore.keep_tail_lines
    /\ HeadLines \o MiddleLines \o TailLines = OriginalLines
    /\ ctxOut.original_lines = Len(OriginalLines)
    /\ ctxOut.final_lines = HeadCount + 6 + TailCount

\* C24: when a compression archives, head, middle and tail are contiguous,
\* non-overlapping and cover the original lines in order, with
\* head_count <= header_lines and tail_count <= keep_tail_lines; the
\* compressed file starts with the head lines and ends with the tail lines,
\* and the archive file holds the middle lines, so that every original line
\* is in exactly one of the two files.
C24_EveryLineKeptOrArchived ==
    Archived =>
        /\ SplitCoversLines
        /\ Len(CompressedFileLines) >= HeadCount + TailCount
        /\ SubSeq(CompressedFileLines, 1, HeadCount) = HeadLines
        /\ LastLines(CompressedFileLines, TailCount) = TailLines
        /\ MiddleLines # <<>> => ArchiveFileLines = MiddleLines

=============================================================================
